---- MODULE Spec2Model ----
(***************************************************************************)
(* Webhook ingestion of the payment service.                               *)
(*                                                                         *)
(* A request to /api/webhooks/{stripe,paypal,test} passes the application  *)
(* middleware of server.js (the body parsers), then the route of           *)
(* routes/webhooks.js: signature verification (Stripe only), the switch on *)
(* the provider's event type, the selected handler, and for three Stripe   *)
(* handlers and the test route a PATCH of the user's plan in the           *)
(* authentication service.  Requests are served concurrently: a request    *)
(* advances one step at a time, and steps of different requests interleave *)
(* at the awaits of the code.                                              *)
(***************************************************************************)
EXTENDS Naturals, Sequences, FiniteSets, Bags

VARIABLES
    reqs,       \* the requests received so far (a bag of request records)
    patches,    \* the PATCH calls sent to the authentication service, in order
    authPlan,   \* the plan the authentication service holds for each user
    unit,       \* the arguments and result of a function exercised on its own
    provider,   \* what Stripe holds for the service: customers, objects created
    app,        \* the express application: the limiter's count and the request
                \* passing through the middleware
    plans       \* the Plan collection and the POST /plans requests in hand

vars == <<reqs, patches, authPlan, unit, provider, app, plans>>

\* Bounds of the model.
MaxReq == 2
MaxCalls == 3
MaxHits == 101
MaxPosts == 2

\* ---------------------------------------------------------------------
\* Vocabulary
\* ---------------------------------------------------------------------

\* The routes of routes/webhooks.js.
Endpoints == {"stripe", "paypal", "test"}

\* Content-Type of a request: application/json, or anything else.
ContentTypes == {"json", "other"}

\* The stripe-signature header: absent, present but not the signature of the
\* body bytes under the webhook secret, or the signature of the body bytes.
Signatures == {"none", "bad", "good"}

\* The case labels of the Stripe switch.
StripeTypes ==
    { "payment_intent.succeeded", "payment_intent.payment_failed",
      "invoice.payment_succeeded", "invoice.payment_failed",
      "checkout.session.completed", "customer.subscription.created",
      "customer.subscription.updated", "customer.subscription.deleted",
      "customer.subscription.trial_will_end" }

\* The case labels of the PayPal switch.
PayPalTypes ==
    { "PAYMENT.CAPTURE.COMPLETED", "PAYMENT.CAPTURE.DENIED",
      "BILLING.SUBSCRIPTION.CREATED", "BILLING.SUBSCRIPTION.ACTIVATED",
      "BILLING.SUBSCRIPTION.CANCELLED", "BILLING.SUBSCRIPTION.EXPIRED",
      "BILLING.SUBSCRIPTION.PAYMENT.COMPLETED",
      "BILLING.SUBSCRIPTION.PAYMENT.FAILED" }

\* Type strings that are no case label: provider types the service does not
\* handle, and near misses of a label (other case, a longer string).
OtherTypes ==
    { "charge.refunded", "PAYMENT.CAPTURE.REFUNDED",
      "Payment_Intent.Succeeded", "payment_intent.succeeded.v2",
      "payment.capture.completed" }

TypeStrings == StripeTypes \cup PayPalTypes \cup OtherTypes

\* metadata.userId and metadata.planId of an event object ("" is absent).
UserIds == {"", "u1"}
PlanIds == {"", "pro"}
Users == UserIds \ {""}

\* event.data.object of a Stripe event, resource of a PayPal body: an object,
\* or absent.
Objects == {"object", "undefined"}

\* What the authentication service answers to a PATCH: 2xx, non-2xx, or the
\* call fails (network error).
Replies == {"ok", "nonok", "neterr"}

\* ---------------------------------------------------------------------
\* Body parsers
\* ---------------------------------------------------------------------

\* req.body is "undefined" before any parser ran, "empty" ({}) after a parser
\* that skipped the request, "parsed" (an object) after express.json read it,
\* "raw" (a Buffer of the body bytes) after express.raw read it.
Bodies == {"undefined", "empty", "parsed", "raw"}

\* A body parser skips a request whose body another parser has read (req._body).
BodyRead(body) == body \in {"parsed", "raw"}

\* app.use(express.json({ limit: '10mb' })): reads a body of type
\* application/json into an object; otherwise leaves req.body = req.body || {}.
JsonParse(ctype, body) ==
    IF BodyRead(body) THEN body
    ELSE IF ctype = "json" THEN "parsed"
    ELSE IF body = "undefined" THEN "empty" ELSE body

\* express.raw({ type: 'application/json' }) of the Stripe route: reads a body
\* of type application/json into a Buffer, unless it has been read already.
RawParse(ctype, body) ==
    IF BodyRead(body) THEN body
    ELSE IF ctype = "json" THEN "raw"
    ELSE IF body = "undefined" THEN "empty" ELSE body

\* ---------------------------------------------------------------------
\* Signature verification
\* ---------------------------------------------------------------------

\* StripeService.verifyWebhookSignature: stripe.webhooks.constructEvent
\* recomputes the signature over the payload it is given and returns the event
\* ("event") only if the header matches; it throws otherwise, and the service
\* rethrows ("throw").  The header signs the body bytes, so it matches only a
\* payload that is those bytes: over a parsed object the recomputed signature
\* differs.
StripeVerifyWebhookSignature(payload, signature) ==
    IF payload = "raw" /\ signature = "good" THEN "event" ELSE "throw"

\* What the provider's verification call does: the call fails, or it answers
\* with a verification status, or with a reply that carries no result.
ExecOutcomes == {"throws", "SUCCESS", "FAILURE", "noresult"}

\* A verifyWebhookSignature whose catch rethrows instead of returning false.
PayPalVerifyRethrows(parsable, exec) ==
    IF ~parsable THEN "throw"
    ELSE IF exec \in {"throws", "noresult"} THEN "throw"
    ELSE IF exec = "SUCCESS" THEN "true" ELSE "false"

\* PayPalService.verifyWebhookSignature(transmissionId, timestamp, webhookId,
\* eventBody): JSON.parse(eventBody), then the verification call, inside one
\* try; the catch returns false.  The result is "true", "false" or "throw".
PayPalVerifyWebhookSignature(parsable, exec) ==
    IF ~parsable THEN "false"                     \* JSON.parse throws: catch
    ELSE IF exec \in {"throws", "noresult"} THEN "false"   \* catch
    ELSE IF exec = "SUCCESS" THEN "true" ELSE "false"

\* ---------------------------------------------------------------------
\* The switches and the handlers
\* ---------------------------------------------------------------------

\* A switch whose default branch calls a handler.
StripeHandlerForAnyType(type) ==
    CASE type = "payment_intent.succeeded" -> "handlePaymentIntentSucceeded"
      [] type = "payment_intent.payment_failed" -> "handlePaymentIntentFailed"
      [] type = "invoice.payment_succeeded" -> "handleInvoicePaymentSucceeded"
      [] type = "invoice.payment_failed" -> "handleInvoicePaymentFailed"
      [] type = "checkout.session.completed" -> "handleCheckoutSessionCompleted"
      [] type = "customer.subscription.created" -> "handleSubscriptionCreated"
      [] type = "customer.subscription.updated" -> "handleSubscriptionUpdated"
      [] type = "customer.subscription.deleted" -> "handleSubscriptionDeleted"
      [] type = "customer.subscription.trial_will_end" ->
             "handleSubscriptionTrialWillEnd"
      [] OTHER -> "handlePaymentIntentSucceeded"

\* switch (event.type) of router.post('/stripe'); "none" is the default branch.
StripeHandlerFor(type) ==
    CASE type = "payment_intent.succeeded" -> "handlePaymentIntentSucceeded"
      [] type = "payment_intent.payment_failed" -> "handlePaymentIntentFailed"
      [] type = "invoice.payment_succeeded" -> "handleInvoicePaymentSucceeded"
      [] type = "invoice.payment_failed" -> "handleInvoicePaymentFailed"
      [] type = "checkout.session.completed" -> "handleCheckoutSessionCompleted"
      [] type = "customer.subscription.created" -> "handleSubscriptionCreated"
      [] type = "customer.subscription.updated" -> "handleSubscriptionUpdated"
      [] type = "customer.subscription.deleted" -> "handleSubscriptionDeleted"
      [] type = "customer.subscription.trial_will_end" ->
             "handleSubscriptionTrialWillEnd"
      [] OTHER -> "none"

\* A switch that matches the type without regard to case.
PayPalHandlerForAnyCase(type) ==
    CASE type \in {"PAYMENT.CAPTURE.COMPLETED", "payment.capture.completed"} ->
             "handlePayPalPaymentCompleted"
      [] type = "PAYMENT.CAPTURE.DENIED" -> "handlePayPalPaymentDenied"
      [] type = "BILLING.SUBSCRIPTION.CREATED" ->
             "handlePayPalSubscriptionCreated"
      [] type = "BILLING.SUBSCRIPTION.ACTIVATED" ->
             "handlePayPalSubscriptionActivated"
      [] type = "BILLING.SUBSCRIPTION.CANCELLED" ->
             "handlePayPalSubscriptionCancelled"
      [] type = "BILLING.SUBSCRIPTION.EXPIRED" ->
             "handlePayPalSubscriptionExpired"
      [] type = "BILLING.SUBSCRIPTION.PAYMENT.COMPLETED" ->
             "handlePayPalSubscriptionPaymentCompleted"
      [] type = "BILLING.SUBSCRIPTION.PAYMENT.FAILED" ->
             "handlePayPalSubscriptionPaymentFailed"
      [] OTHER -> "none"

\* switch (event_type) of router.post('/paypal'); "none" is the default branch.
PayPalHandlerFor(type) ==
    CASE type = "PAYMENT.CAPTURE.COMPLETED" -> "handlePayPalPaymentCompleted"
      [] type = "PAYMENT.CAPTURE.DENIED" -> "handlePayPalPaymentDenied"
      [] type = "BILLING.SUBSCRIPTION.CREATED" ->
             "handlePayPalSubscriptionCreated"
      [] type = "BILLING.SUBSCRIPTION.ACTIVATED" ->
             "handlePayPalSubscriptionActivated"
      [] type = "BILLING.SUBSCRIPTION.CANCELLED" ->
             "handlePayPalSubscriptionCancelled"
      [] type = "BILLING.SUBSCRIPTION.EXPIRED" ->
             "handlePayPalSubscriptionExpired"
      [] type = "BILLING.SUBSCRIPTION.PAYMENT.COMPLETED" ->
             "handlePayPalSubscriptionPaymentCompleted"
      [] type = "BILLING.SUBSCRIPTION.PAYMENT.FAILED" ->
             "handlePayPalSubscriptionPaymentFailed"
      [] OTHER -> "none"

\* The same, were handleSubscriptionTrialWillEnd to propagate the plan too.
ReadsMetadataAlsoAtTrialEnd(h) ==
    h \in { "handleCheckoutSessionCompleted", "handleSubscriptionCreated",
            "handleSubscriptionUpdated", "handleSubscriptionTrialWillEnd" }

\* The handlers whose body reads metadata.userId and metadata.planId and
\* PATCHes the plan; every other handler only logs.
ReadsMetadata(h) ==
    h \in { "handleCheckoutSessionCompleted", "handleSubscriptionCreated",
            "handleSubscriptionUpdated" }

\* A test of the metadata that looks at userId alone.
HasUser(userId, planId) == userId # ""

\* if (userId && planId) of those handlers and of the test route.
HasUserAndPlan(userId, planId) == userId # "" /\ planId # ""

\* What a handler makes of an exception in its body (reading a property of an
\* absent object is a TypeError): its catch logs it, and the handler returns.
HandlerOnException == "returned"

\* A handler that lets the failure of its PATCH escape.
HandlerRethrows(reply) == IF reply = "ok" THEN "returned" ELSE "threw"

\* What a handler makes of the outcome of its PATCH: the non-2xx reply is
\* logged, the failed call is caught and logged; the handler returns.
HandlerOnReply(reply) == "returned"

\* ---------------------------------------------------------------------
\* Requests
\* ---------------------------------------------------------------------

\* A request as it arrives.  pc is the place of the request in the code:
\*   "json"    before the application's express.json
\*   "raw"     before the express.raw of the Stripe route
\*   "route"   before the route's function
\*   "import"  in a PATCH block, at await import('node-fetch')
\*   "wait"    in a PATCH block, at await fetch(...)
\*   "resume"  the awaited handler has settled; the route resumes
\*   "done"    the response has been sent
\* A header or a field of the body stays "" until the code reads it.
NewRequest(ep, eid, delivery, ctype, body, pc) ==
    [ ep |-> ep, eid |-> eid, delivery |-> delivery,
      ctype |-> ctype, sig |-> "",
      body |-> body, pc |-> pc,
      payload |-> "none",        \* what was handed to the Stripe verifier
      verified |-> FALSE,        \* the verifier returned an event
      type |-> "", userId |-> "", planId |-> "",
      obj |-> "",                \* event.data.object / resource, once read
      h |-> "none",              \* the handler the switch called
      hstate |-> "none",         \* "running", "returned" or "threw"
      reply |-> "none",          \* the outcome of the request's PATCH
      status |-> 0, rbody |-> "" ]

\* res.status(status).json(...): rbody names the body sent.
Respond(q, status, rbody) ==
    [q EXCEPT !.status = status, !.rbody = rbody, !.pc = "done"]

\* The identifier of the event a request delivers: one already delivered, or
\* the next new one (identifiers are numbered in order of first delivery).
EventIdsFor(ep) ==
    LET used == {q.eid : q \in {x \in BagToSet(reqs) : x.ep = ep}}
    IN  used \cup {Cardinality(used) + 1}

\* How a delivery of event eid at route ep stands to the earlier ones: the
\* "first" delivery of its event, a "retry" that arrives when a delivery of the
\* event has been answered, or a delivery that arrives while the earlier ones
\* are still being served ("race").
DeliveryOf(ep, eid) ==
    LET same == {x \in BagToSet(reqs) : x.ep = ep /\ x.eid = eid}
    IN  IF same = {} THEN "first"
        ELSE IF \E x \in same : x.pc = "done" THEN "retry" ELSE "race"

\* The Content-Type a body parser finds on request q.
ContentTypeOf(q) == IF q.ctype = "" THEN ContentTypes ELSE {q.ctype}

\* The types a provider's deliveries carry at each route of the model: the
\* route's own case labels, a label of the other provider, a type no switch
\* knows.
DeliveredTypes(ep) ==
    IF ep = "stripe"
    THEN StripeTypes \cup {"PAYMENT.CAPTURE.COMPLETED", "charge.refunded"}
    ELSE PayPalTypes \cup {"payment_intent.succeeded",
                           "PAYMENT.CAPTURE.REFUNDED"}

\* await handler(event.data.object), from the call to the handler's first await
\* or its return.  Every handler reads a property of its argument inside its
\* try, so an absent object ends in the handler's catch.  A handler that reads
\* metadata and finds both userId and planId enters its PATCH block; every other
\* handler logs and returns.
CallHandler(q, h, obj, userId, planId) ==
    IF obj = "undefined"
    THEN [q EXCEPT !.h = h, !.obj = obj,
                   !.hstate = HandlerOnException, !.pc = "resume"]
    ELSE IF ReadsMetadata(h) /\ HasUserAndPlan(userId, planId)
    THEN [q EXCEPT !.h = h, !.obj = obj,
                   !.userId = userId, !.planId = planId,
                   !.hstate = "running", !.pc = "import"]
    ELSE [q EXCEPT !.h = h, !.obj = obj,
                   !.userId = userId, !.planId = planId,
                   !.hstate = "returned", !.pc = "resume"]

\* A Stripe route whose catch of the verification does not return.
StripeRouteNoReturn(q, sig, type, obj, userId, planId) ==
    IF sig = "none" THEN Respond([q EXCEPT !.sig = sig], 400,
                                 "No signature found")
    ELSE LET v == [q EXCEPT !.sig = sig, !.payload = q.body,
                            !.verified =
                              (StripeVerifyWebhookSignature(q.body, sig)
                                 = "event"),
                            !.type = type]
             h == StripeHandlerFor(type)
         IN  IF h = "none" THEN Respond(v, 200, "received")
             ELSE CallHandler(v, h, obj, userId, planId)

\* router.post('/stripe', ...), from its entry to the first await or response:
\* the signature header, the verification, the switch.
StripeRoute(q, sig, type, obj, userId, planId) ==
    IF sig = "none" THEN Respond([q EXCEPT !.sig = sig], 400,
                                 "No signature found")
    ELSE IF StripeVerifyWebhookSignature(q.body, sig) = "throw"
    THEN Respond([q EXCEPT !.sig = sig, !.payload = q.body], 400,
                 "Invalid signature")
    ELSE LET v == [q EXCEPT !.sig = sig, !.payload = q.body,
                            !.verified = TRUE, !.type = type]
             h == StripeHandlerFor(type)
         IN  IF h = "none" THEN Respond(v, 200, "received")
             ELSE CallHandler(v, h, obj, userId, planId)

\* router.post('/paypal', ...), from its entry to the first await or response.
\* Destructuring an undefined req.body throws: the route's catch answers 500.
PayPalRoute(q, type, obj) ==
    IF q.body = "undefined" THEN Respond(q, 500, "Webhook processing failed")
    ELSE LET v == [q EXCEPT !.type = type]
             h == PayPalHandlerFor(type)
         IN  IF h = "none" THEN Respond(v, 200, "received")
             ELSE CallHandler(v, h, obj, "", "")

\* router.post('/test', ...), from its entry to the first await or response.
TestRoute(q, userId, planId) ==
    IF q.body = "undefined" THEN Respond(q, 500, "Test webhook failed")
    ELSE IF ~HasUserAndPlan(userId, planId)
    THEN Respond([q EXCEPT !.userId = userId, !.planId = planId],
                 400, "userId and planId are required")
    ELSE [q EXCEPT !.userId = userId, !.planId = planId, !.pc = "import"]

\* What a route can read from request q: the stripe-signature header and, from
\* the body, <<type, object, userId, planId>>.  What the code does not read
\* stays "".
StripeReads(q) ==
    {<<"none", "", "", "", "">>}
    \cup {<<sig, "", "", "", "">> : sig \in
             {s \in {"bad", "good"} :
                StripeVerifyWebhookSignature(q.body, s) = "throw"}}
    \cup {<<sig, t, o, u, p>> \in
             {"bad", "good"} \X DeliveredTypes("stripe") \X {"object", ""}
                 \X UserIds \X PlanIds :
               /\ StripeVerifyWebhookSignature(q.body, sig) = "event"
               /\ (o = "") <=> (StripeHandlerFor(t) = "none")
               /\ ReadsMetadata(StripeHandlerFor(t)) \/ (u = "" /\ p = "")}

\* The same of a signed event that carries no data.object: the handler reads
\* nothing more of it.
StripeReadsNoObject(q) ==
    {<<sig, t, "undefined", "", "">> : sig \in
         {s \in {"bad", "good"} :
            StripeVerifyWebhookSignature(q.body, s) = "event"},
       t \in {x \in DeliveredTypes("stripe") : StripeHandlerFor(x) # "none"}}

PayPalReads(q) ==
    IF q.body = "parsed"
    THEN {<<t, o>> \in DeliveredTypes("paypal") \X {"object", ""} :
            (o = "") <=> (PayPalHandlerFor(t) = "none")}
    ELSE {<<"", "">>}

\* The same of a body that carries no resource.
PayPalReadsNoObject(q) ==
    IF q.body = "parsed"
    THEN {<<t, "undefined">> :
            t \in {x \in DeliveredTypes("paypal") : PayPalHandlerFor(x) # "none"}}
    ELSE {}

TestReads(q) ==
    IF q.body = "parsed" THEN UserIds \X PlanIds ELSE {<<"", "">>}

\* A route that calls the handler without await.
NotAwaited(q) == q.pc \in {"import", "wait", "resume"}

\* The route resumes after await handler(...): res.json({ received: true }),
\* or the route's catch if the handler threw.
AwaitSettled(q) == q.pc = "resume"

RouteResume(q) ==
    IF q.hstate = "threw" THEN Respond(q, 500, "Webhook processing failed")
    ELSE Respond(q, 200, "received")

\* The PATCH block after await fetch(...), in a handler: the handler settles.
HandlerAfterFetch(q, reply) ==
    [q EXCEPT !.reply = reply, !.hstate = HandlerOnReply(reply),
              !.pc = "resume"]

\* The PATCH block after await fetch(...), in the test route: the response.
TestAfterFetch(q, reply) ==
    IF reply = "ok"
    THEN Respond([q EXCEPT !.reply = reply], 200, "success")
    ELSE Respond([q EXCEPT !.reply = reply], 500, "Failed to update user plan")

\* ---------------------------------------------------------------------
\* The payment and subscription routes
\* ---------------------------------------------------------------------

\* The users the authentication middleware lets through (req.user.id).
AuthUsers == {"u1", "u2"}

\* req.body.paymentMethod.
PaymentMethods == {"stripe", "paypal", "other"}

\* The planId values the subscription schemas let through.
RequestedPlans == {"free", "pro", "super-pro"}

\* req.body.metadata, an object of any keys (Joi.object()): its userId and
\* planId keys, "" when the key is absent.
ClientMetadata == [userId : {"", "u2"}, planId : {"", "super-pro"}]

\* The call to Stripe that fails in a request, if any: the creation of the
\* customer, or the creation of the object the route is about.
StripeFailures == {"none", "customer", "object"}

\* :subscriptionId of the subscription routes; Stripe knows sub_1 at most.
SubscriptionIds == {"sub_1", "sub_x"}

\* req.body.cancelAtPeriodEnd.
CancelFlags == {"undefined", "true", "false"}

\* PLANS[planId].stripePriceId of stripeService: null for the free plan.
StripePriceId(planId) == IF planId = "free" THEN "null" ELSE planId

\* { userId, planId, ...metadata }: a key of the spread object replaces the
\* same key written before it.
Spread(base, metadata) ==
    [k \in DOMAIN base |-> IF metadata[k] # "" THEN metadata[k] ELSE base[k]]

\* StripeService.createCustomer(req.user): stripe.customers.create, which makes
\* a new customer at every call.
CreateCustomer(p, u) == [p EXCEPT !.customers[u] = @ + 1]

\* The object a route has created at Stripe for user u, with its metadata.
Created(p, kind, u, plan, metadata) ==
    [p EXCEPT !.created = [kind |-> kind, by |-> u, plan |-> plan,
                           userId |-> metadata.userId,
                           planId |-> metadata.planId],
              !.status = 200]

\* res.status(status).json(...) of a payment or subscription route.
Answer(p, status) == [p EXCEPT !.status = status]

\* router.post('/intent') of routes/payments.js.
PostIntent(p, u, paymentMethod, metadata, fails) ==
    IF paymentMethod = "stripe"
    THEN IF fails = "customer" THEN Answer(p, 500)
         ELSE IF fails = "object" THEN Answer(CreateCustomer(p, u), 500)
         ELSE Created(CreateCustomer(p, u), "intent", u, "",
                      Spread([userId |-> u, planId |-> ""], metadata))
    ELSE IF paymentMethod = "paypal"
    THEN Answer(p, IF fails = "none" THEN 200 ELSE 500)
    ELSE Answer(p, 400)

\* router.post('/methods') of routes/payments.js, after validatePaymentMethod.
PostMethods(p, u, type, fails) ==
    IF type = "card"
    THEN IF fails = "customer" THEN Answer(p, 500)
         ELSE IF fails = "object" THEN Answer(CreateCustomer(p, u), 500)
         ELSE Answer(CreateCustomer(p, u), 200)
    ELSE Answer(p, 200)

\* router.post('/') of the subscription routes, after validateSubscription.
\* priced tells whether Plan.findOne({ planId }) finds a plan with a
\* stripePriceId.
PostSubscription(p, u, planId, paymentMethod, metadata, priced, fails) ==
    IF planId = "free" THEN Answer(p, 200)
    ELSE IF paymentMethod = "stripe"
    THEN IF ~priced THEN Answer(p, 400)
         ELSE IF fails = "customer" THEN Answer(p, 500)
         ELSE IF fails = "object" THEN Answer(CreateCustomer(p, u), 500)
         ELSE Created(CreateCustomer(p, u), "session", u, planId,
                      Spread([userId |-> u, planId |-> planId], metadata))
    ELSE Answer(p, IF fails = "none" THEN 200 ELSE 500)

\* A cancelSubscription that cancels the subscription at once.
RemoveSubscription(p, sid, cancelAtPeriodEnd) ==
    IF sid = "sub_1" /\ p.sub.exists
    THEN [p EXCEPT !.sub = [exists |-> FALSE, cancelAtPeriodEnd |-> FALSE,
                            plan |-> ""],
                   !.status = 200]
    ELSE Answer(p, 500)

\* StripeService.cancelSubscription(subscriptionId, cancelAtPeriodEnd):
\* stripe.subscriptions.update(subscriptionId, { cancel_at_period_end }), which
\* throws for a subscription Stripe does not know; the route's catch answers
\* 500.
CancelSubscription(p, sid, cancelAtPeriodEnd) ==
    IF sid = "sub_1" /\ p.sub.exists
    THEN [p EXCEPT !.sub.cancelAtPeriodEnd = cancelAtPeriodEnd,
                   !.status = 200]
    ELSE Answer(p, 500)

\* StripeService.reactivateSubscription(subscriptionId).
ReactivateSubscription(p, sid) ==
    IF sid = "sub_1" /\ p.sub.exists
    THEN [p EXCEPT !.sub.cancelAtPeriodEnd = FALSE, !.status = 200]
    ELSE Answer(p, 500)

\* StripeService.updateSubscription(subscriptionId, priceId).
UpdateSubscription(p, sid, planId) ==
    IF sid = "sub_1" /\ p.sub.exists
    THEN [p EXCEPT !.sub.plan = planId, !.status = 200]
    ELSE Answer(p, 500)

\* router.put('/:subscriptionId'), after validateUpdateSubscription.
PutSubscription(p, sid, planId, cancelAtPeriodEnd) ==
    IF cancelAtPeriodEnd # "undefined"
    THEN IF cancelAtPeriodEnd = "true" THEN CancelSubscription(p, sid, TRUE)
         ELSE ReactivateSubscription(p, sid)
    ELSE IF StripePriceId(planId) = "null" THEN Answer(p, 400)
    ELSE UpdateSubscription(p, sid, planId)

\* router.delete('/:subscriptionId').
DeleteSubscription(p, sid) == CancelSubscription(p, sid, TRUE)

\* One more request to a payment or subscription route has been served.
Called(p) == provider' = [p EXCEPT !.calls = provider.calls + 1]

PaymentIntent ==
    /\ provider.calls < MaxCalls
    /\ \E u \in AuthUsers, paymentMethod \in PaymentMethods,
          metadata \in ClientMetadata, fails \in StripeFailures :
         Called(PostIntent(provider, u, paymentMethod, metadata, fails))
    /\ UNCHANGED <<reqs, patches, authPlan, unit, app, plans>>

AddPaymentMethod ==
    /\ provider.calls < MaxCalls
    /\ \E u \in AuthUsers, type \in {"card", "paypal"},
          fails \in StripeFailures :
         Called(PostMethods(provider, u, type, fails))
    /\ UNCHANGED <<reqs, patches, authPlan, unit, app, plans>>

CreateSubscription ==
    /\ provider.calls < MaxCalls
    /\ \E u \in AuthUsers, planId \in RequestedPlans,
          paymentMethod \in {"stripe", "paypal"},
          metadata \in ClientMetadata, priced \in BOOLEAN,
          fails \in StripeFailures :
         Called(PostSubscription(provider, u, planId, paymentMethod,
                                 metadata, priced, fails))
    /\ UNCHANGED <<reqs, patches, authPlan, unit, app, plans>>

ChangeSubscription ==
    /\ provider.calls < MaxCalls
    /\ \E sid \in SubscriptionIds, planId \in RequestedPlans,
          cancelAtPeriodEnd \in CancelFlags :
         Called(PutSubscription(provider, sid, planId, cancelAtPeriodEnd))
    /\ UNCHANGED <<reqs, patches, authPlan, unit, app, plans>>

EndSubscription ==
    /\ provider.calls < MaxCalls
    /\ \E sid \in SubscriptionIds : Called(DeleteSubscription(provider, sid))
    /\ UNCHANGED <<reqs, patches, authPlan, unit, app, plans>>

\* The customer pays on the checkout session the service has created
\* (mode: 'subscription'): Stripe starts the subscription.
CheckoutPaid ==
    /\ provider.created.kind = "session" /\ ~provider.sub.exists
    /\ provider' = [provider EXCEPT
                      !.sub = [exists |-> TRUE, cancelAtPeriodEnd |-> FALSE,
                               plan |-> provider.created.plan]]
    /\ UNCHANGED <<reqs, patches, authPlan, unit, app, plans>>

\* ---------------------------------------------------------------------
\* Actions
\* ---------------------------------------------------------------------

\* Request q takes a step and becomes q2.
Becomes(q, q2) == reqs' = (reqs (-) SetToBag({q})) (+) SetToBag({q2})

\* A request arrives at the application.
Receive ==
    /\ BagCardinality(reqs) < MaxReq
    /\ \E ep \in Endpoints :
         \E eid \in EventIdsFor(ep) :
           reqs' = reqs (+) SetToBag({
                     NewRequest(ep, eid, DeliveryOf(ep, eid),
                                "", "undefined", "json")})
    /\ UNCHANGED <<patches, authPlan, unit, provider, app, plans>>

\* A request arrives at the router with no body parser ahead of it
\* (ctype = ""), or with the application's express.json ahead of it.
ReceiveAtRouter ==
    /\ BagCardinality(reqs) < MaxReq
    /\ \E ep \in Endpoints, ctype \in ContentTypes \cup {""} :
         \E eid \in EventIdsFor(ep) :
           reqs' = reqs (+) SetToBag({
                     NewRequest(ep, eid, DeliveryOf(ep, eid), ctype,
                         IF ctype = "" THEN "undefined"
                         ELSE JsonParse(ctype, "undefined"),
                         IF ep = "stripe" THEN "raw" ELSE "route")})
    /\ UNCHANGED <<patches, authPlan, unit, provider, app, plans>>

\* The same, when every earlier request has been answered.
ReceiveInTurn ==
    /\ \A q \in BagToSet(reqs) : q.pc = "done"
    /\ ReceiveAtRouter

\* app.use(express.json(...)), then the router.
AppJson(q) ==
    /\ q.pc = "json"
    /\ \E ctype \in ContentTypeOf(q) :
         Becomes(q, [q EXCEPT !.ctype = ctype,
                              !.body = JsonParse(ctype, q.body),
                              !.pc = IF q.ep = "stripe" THEN "raw"
                                     ELSE "route"])
    /\ UNCHANGED <<patches, authPlan, unit, provider, app, plans>>

\* express.raw({ type: 'application/json' }) of the Stripe route.
RouteRaw(q) ==
    /\ q.pc = "raw"
    /\ \E ctype \in ContentTypeOf(q) :
         Becomes(q, [q EXCEPT !.ctype = ctype,
                              !.body = RawParse(ctype, q.body),
                              !.pc = "route"])
    /\ UNCHANGED <<patches, authPlan, unit, provider, app, plans>>

Stripe(q) ==
    /\ q.pc = "route" /\ q.ep = "stripe"
    /\ \E in \in StripeReads(q) :
         Becomes(q, StripeRoute(q, in[1], in[2], in[3], in[4], in[5]))
    /\ UNCHANGED <<patches, authPlan, unit, provider, app, plans>>

PayPal(q) ==
    /\ q.pc = "route" /\ q.ep = "paypal"
    /\ \E in \in PayPalReads(q) : Becomes(q, PayPalRoute(q, in[1], in[2]))
    /\ UNCHANGED <<patches, authPlan, unit, provider, app, plans>>

\* router.post('/stripe') on an event without data.object.
StripeNoObject(q) ==
    /\ q.pc = "route" /\ q.ep = "stripe"
    /\ \E in \in StripeReadsNoObject(q) :
         Becomes(q, StripeRoute(q, in[1], in[2], in[3], in[4], in[5]))
    /\ UNCHANGED <<patches, authPlan, unit, provider, app, plans>>

\* router.post('/paypal') on a body without resource.
PayPalNoObject(q) ==
    /\ q.pc = "route" /\ q.ep = "paypal"
    /\ \E in \in PayPalReadsNoObject(q) :
         Becomes(q, PayPalRoute(q, in[1], in[2]))
    /\ UNCHANGED <<patches, authPlan, unit, provider, app, plans>>

Test(q) ==
    /\ q.pc = "route" /\ q.ep = "test"
    /\ \E in \in TestReads(q) : Becomes(q, TestRoute(q, in[1], in[2]))
    /\ UNCHANGED <<patches, authPlan, unit, provider, app, plans>>

\* fetch(`${authServiceUrl}/auth/users/${userId}/plan`, { method: 'PATCH',
\* body: JSON.stringify({ planId }) }): the call is sent.
Fetch(q) ==
    /\ q.pc = "import"
    /\ patches' = Append(patches, [ep |-> q.ep, eid |-> q.eid,
                                   userId |-> q.userId, planId |-> q.planId])
    /\ Becomes(q, [q EXCEPT !.pc = "wait"])
    /\ UNCHANGED <<authPlan, unit, provider, app, plans>>

\* An authentication service that stores the plan of every PATCH it receives,
\* also of one it answers with an error.
FetchReplyStoresAlways(q) ==
    /\ q.pc = "wait"
    /\ \E reply \in Replies :
         /\ authPlan' = [authPlan EXCEPT ![q.userId] = q.planId]
         /\ Becomes(q, IF q.ep = "test" THEN TestAfterFetch(q, reply)
                       ELSE HandlerAfterFetch(q, reply))
    /\ UNCHANGED <<patches, unit, provider, app, plans>>

\* The authentication service answers the PATCH (it has stored the plan when it
\* answers 2xx), or the call fails; the PATCH block goes on.
FetchReply(q) ==
    /\ q.pc = "wait"
    /\ \E reply \in Replies :
         /\ authPlan' = IF reply = "ok"
                        THEN [authPlan EXCEPT ![q.userId] = q.planId]
                        ELSE authPlan
         /\ Becomes(q, IF q.ep = "test" THEN TestAfterFetch(q, reply)
                       ELSE HandlerAfterFetch(q, reply))
    /\ UNCHANGED <<patches, unit, provider, app, plans>>

\* The route goes on after await handler(...).
Resume(q) ==
    /\ AwaitSettled(q)
    /\ Becomes(q, RouteResume(q))
    /\ UNCHANGED <<patches, authPlan, unit, provider, app, plans>>

\* No request is passing through the application.
NoExchange ==
    [pc |-> "idle", method |-> "", path |-> <<>>, header |-> <<"", "">>,
     hit |-> 0, by |-> "none", nexts |-> 0, user |-> "undefined",
     route |-> "none", sent |-> <<>>]

NoApp == [hits |-> 0, nodeEnv |-> "development", cur |-> NoExchange]

\* An empty Plan collection, and no POST /plans request received.
NoPlans == [docs |-> <<>>, posts |-> {}]

NoUnit == [fn |-> "none", a1 |-> "", a2 |-> "", result |-> ""]

\* What Stripe holds before the service has called it: no customer of any
\* user, no object created, no subscription.
NoRecords ==
    [ customers |-> [u \in AuthUsers |-> 0],
      created |-> [kind |-> "none", by |-> "", plan |-> "",
                   userId |-> "", planId |-> ""],
      sub |-> [exists |-> FALSE, cancelAtPeriodEnd |-> FALSE, plan |-> ""],
      calls |-> 0, status |-> 0 ]

Init ==
    /\ reqs = EmptyBag
    /\ patches = <<>>
    /\ authPlan = [u \in Users |-> "free"]
    /\ unit = NoUnit
    /\ provider = NoRecords
    /\ app = NoApp
    /\ plans = NoPlans

\* ---------------------------------------------------------------------
\* The express application of server.js
\* ---------------------------------------------------------------------

\* max of the limiter when RATE_LIMIT_MAX_REQUESTS is not set.
RateLimitMax == 100

Methods == {"GET", "POST", "PUT"}

\* Paths, as their segments.
Paths ==
    { <<>>, <<"health">>, <<"health", "detailed">>, <<"invalid-route">>,
      <<"metrics">>, <<"api", "payments", "intent">>,
      <<"api", "payments", "history", "all">>,
      <<"api", "subscriptions", "sub_1">>,
      <<"api", "subscriptions", "sub_1", "usage", "daily">>,
      <<"api", "webhooks", "test">>, <<"api", "webhooks", "unknown">> }

\* Authorization headers as <<the first seven characters, the rest>>; a header
\* that is absent or empty is <<"", "">>.
Headers ==
    { <<"", "">>, <<"Basic Y", "WJj">>, <<"bearer ", "good">>,
      <<"Bearer ", "">>, <<"Bearer ", "invalid">>, <<"Bearer ", "expired">>,
      <<"Bearer ", "early">>, <<"Bearer ", "good">> }

Origins == {"undefined", "allowed", "other"}
JsonBodies == {"none", "json", "malformed"}
NodeEnvs == {"production", "development"}

\* A response: res.status(status).json({ error, message, stack }).
Sent(status, error, message, stack) ==
    [status |-> status, error |-> error, message |-> message, stack |-> stack]

\* The branches of errorHandler that return a response of their own, in the
\* order of the code.
ErrorBranches ==
    << [field |-> "name", value |-> "ValidationError", status |-> 400,
        error |-> "Validation Error"],
       [field |-> "name", value |-> "StripeError", status |-> 400,
        error |-> "Payment Error"],
       [field |-> "name", value |-> "PayPalError", status |-> 400,
        error |-> "PayPal Error"],
       [field |-> "code", value |-> "ER_DUP_ENTRY", status |-> 409,
        error |-> "Duplicate Entry"],
       [field |-> "code", value |-> "ER_NO_REFERENCED_ROW_2", status |-> 400,
        error |-> "Reference Error"],
       [field |-> "name", value |-> "JsonWebTokenError", status |-> 401,
        error |-> "Invalid Token"],
       [field |-> "name", value |-> "TokenExpiredError", status |-> 401,
        error |-> "Token Expired"] >>

BranchMessage(b, err) ==
    CASE b.error = "Duplicate Entry" ->
             "A record with this information already exists."
      [] b.error = "Reference Error" -> "Referenced record does not exist."
      [] b.error = "Invalid Token" -> "Invalid authentication token."
      [] b.error = "Token Expired" -> "Authentication token has expired."
      [] OTHER -> err.message

\* The default response of errorHandler.
DefaultResponse(err, nodeEnv) ==
    LET statusCode == IF err.statusCode # 0 THEN err.statusCode ELSE 500
        message == IF err.message # "" THEN err.message
                   ELSE "Internal Server Error"
    IN  Sent(statusCode, "Server Error",
             IF nodeEnv = "production" THEN "An unexpected error occurred."
             ELSE message,
             IF nodeEnv # "production" THEN err.stack ELSE "absent")

\* errorHandler whose branches do not return after they respond.
RECURSIVE ErrorHandlerNoReturn(_, _, _)
ErrorHandlerNoReturn(err, nodeEnv, i) ==
    IF i > Len(ErrorBranches) THEN <<DefaultResponse(err, nodeEnv)>>
    ELSE LET b == ErrorBranches[i]
         IN  IF err[b.field] = b.value
             THEN <<Sent(b.status, b.error, BranchMessage(b, err), "absent")>>
                  \o ErrorHandlerNoReturn(err, nodeEnv, i + 1)
             ELSE ErrorHandlerNoReturn(err, nodeEnv, i + 1)

\* errorHandler(err, req, res, next) from its i-th test on: the responses it
\* sends, in order.
RECURSIVE ErrorHandlerFrom(_, _, _)
ErrorHandlerFrom(err, nodeEnv, i) ==
    IF i > Len(ErrorBranches) THEN <<DefaultResponse(err, nodeEnv)>>
    ELSE LET b == ErrorBranches[i]
         IN  IF err[b.field] = b.value
             THEN <<Sent(b.status, b.error, BranchMessage(b, err), "absent")>>
             ELSE ErrorHandlerFrom(err, nodeEnv, i + 1)

ErrorHandler(err, nodeEnv) == ErrorHandlerFrom(err, nodeEnv, 1)

\* An error object.
Err(name, code, statusCode, message) ==
    [name |-> name, code |-> code, statusCode |-> statusCode,
     message |-> message, stack |-> "trace"]

\* jwt.verify(token, process.env.JWT_SECRET): the name of the error thrown, or
\* "" and the payload decoded.
JwtVerify(token) ==
    CASE token = "good" -> [throws |-> "", id |-> "u1"]
      [] token = "expired" -> [throws |-> "TokenExpiredError", id |-> ""]
      [] token = "early" -> [throws |-> "NotBeforeError", id |-> ""]
      [] OTHER -> [throws |-> "JsonWebTokenError", id |-> ""]

\* What authMiddleware has done when it returns: the calls of next(), the
\* responses sent and req.user.
AuthResult(nexts, sent, user) ==
    [nexts |-> nexts, sent |-> sent, user |-> user]

\* authMiddleware that goes on to next() after the 401 of a header that is not
\* a Bearer header.
AuthMiddlewareAlsoNext(header) ==
    IF header[1] # "Bearer "
    THEN AuthResult(1, <<Sent(401, "Authentication required",
                              "Bearer token is required", "absent")>>,
                    "undefined")
    ELSE AuthResult(1, <<>>, JwtVerify(header[2]).id)

\* authMiddleware(req, res, next).
AuthMiddleware(header) ==
    IF header[1] # "Bearer "
    THEN AuthResult(0, <<Sent(401, "Authentication required",
                              "Bearer token is required", "absent")>>,
                    "undefined")
    ELSE LET token == header[2]
         IN  IF token = ""
             THEN AuthResult(0, <<Sent(401, "Authentication required",
                                       "Token is required", "absent")>>,
                             "undefined")
             ELSE LET decoded == JwtVerify(token)
                  IN  IF decoded.throws = ""
                      THEN AuthResult(1, <<>>, decoded.id)
                      ELSE IF decoded.throws = "TokenExpiredError"
                      THEN AuthResult(0, <<Sent(401, "Token expired",
                               "Your session has expired. Please log in again.",
                               "absent")>>, "undefined")
                      ELSE IF decoded.throws = "JsonWebTokenError"
                      THEN AuthResult(0, <<Sent(401, "Invalid token",
                               "Invalid authentication token.", "absent")>>,
                               "undefined")
                      ELSE AuthResult(0, <<Sent(500, "Authentication failed",
                               "An error occurred during authentication.",
                               "absent")>>, "undefined")

\* The routes of each router, as <<method, segments>>.
HealthRoutes ==
    { <<"GET", <<>>>>, <<"GET", <<"detailed">>>>, <<"GET", <<"ready">>>>,
      <<"GET", <<"live">>>> }

SubscriptionRoutes ==
    { <<"GET", <<"plans">>>>, <<"GET", <<"current">>>>, <<"POST", <<>>>>,
      <<"PUT", <<":subscriptionId">>>>, <<"DELETE", <<":subscriptionId">>>>,
      <<"GET", <<":subscriptionId", "usage">>>>,
      <<"GET", <<":subscriptionId", "billing">>>>, <<"POST", <<"plans">>>> }

PaymentRoutes ==
    { <<"POST", <<"intent">>>>, <<"POST", <<"confirm">>>>,
      <<"POST", <<"refund">>>>, <<"GET", <<"methods">>>>,
      <<"POST", <<"methods">>>>, <<"DELETE", <<"methods", ":methodId">>>>,
      <<"GET", <<"history">>>>, <<"GET", <<":paymentId">>>> }

WebhookRoutes ==
    { <<"POST", <<"test">>>>, <<"POST", <<"stripe">>>>,
      <<"POST", <<"paypal">>>> }

AppRoutes == { <<"GET", <<>>>>, <<"GET", <<"metrics">>>> }

RouteParams == {":subscriptionId", ":methodId", ":paymentId"}

\* A route path matches the rest of a request path.
Matches(pattern, rest) ==
    /\ Len(pattern) = Len(rest)
    /\ \A i \in 1..Len(rest) : pattern[i] \in RouteParams \/ pattern[i] = rest[i]

RouteIn(routes, method, rest) ==
    \E r \in routes : r[1] = method /\ Matches(r[2], rest)

\* app.use(prefix, ...) applies to the paths under prefix, and hands the
\* router the rest of the path.
Under(prefix, path) ==
    Len(path) >= Len(prefix) /\ SubSeq(path, 1, Len(prefix)) = prefix

Rest(prefix, path) == SubSeq(path, Len(prefix) + 1, Len(path))

\* The request ends at middleware by, with the responses sent.
Ends(c, by, sent) == [c EXCEPT !.pc = "done", !.by = by, !.sent = sent]

\* A route handler of router runs.
Handled(c, router) ==
    [c EXCEPT !.pc = "done", !.by = "route", !.route = router,
              !.sent = IF router = "health" /\ Rest(<<"health">>, c.path) = <<>>
                       THEN <<Sent(200, "healthy", "Payment Service", "absent")>>
                       ELSE <<Sent(0, "of the route", "", "absent")>>]

\* app.use('*', ...): the 404 handler.
NotFound(c) ==
    Ends(c, "404", <<Sent(404, "Route not found", "does not exist", "absent")>>)

\* app.use(prefix, authMiddleware, router) with authMiddleware replaced.
AuthMountedWith(c, auth, prefix, routes, router) ==
    LET d == [c EXCEPT !.nexts = auth.nexts, !.user = auth.user,
                       !.sent = auth.sent]
    IN  IF auth.nexts = 0 THEN [d EXCEPT !.pc = "done", !.by = "auth"]
        ELSE IF RouteIn(routes, c.method, Rest(prefix, c.path))
        THEN [d EXCEPT !.pc = "done", !.by = "route", !.route = router,
                       !.sent = auth.sent \o
                                <<Sent(0, "of the route", "", "absent")>>]
        ELSE [d EXCEPT !.pc = "done", !.by = "404",
                       !.sent = auth.sent \o
                           <<Sent(404, "Route not found", "does not exist",
                                  "absent")>>]

\* The 404 handler reached without authMiddleware for a path under its mount.
AuthMountedUnmatchedFirst(c, prefix, routes, router) ==
    IF RouteIn(routes, c.method, Rest(prefix, c.path))
    THEN AuthMountedWith(c, AuthMiddleware(c.header), prefix, routes, router)
    ELSE NotFound(c)

\* app.use(prefix, authMiddleware, router).
AuthMounted(c, prefix, routes, router) ==
    AuthMountedWith(c, AuthMiddleware(c.header), prefix, routes, router)

\* The mounts of server.js from app.use('/health', healthRoutes) to the 404
\* handler, for a request that has passed the middleware before them.
Mounts(c) ==
    IF Under(<<"health">>, c.path)
       /\ RouteIn(HealthRoutes, c.method, Rest(<<"health">>, c.path))
    THEN Handled(c, "health")
    ELSE IF Under(<<"api", "subscriptions">>, c.path)
    THEN AuthMounted(c, <<"api", "subscriptions">>, SubscriptionRoutes,
                     "subscriptions")
    ELSE IF Under(<<"api", "payments">>, c.path)
    THEN AuthMounted(c, <<"api", "payments">>, PaymentRoutes, "payments")
    ELSE IF Under(<<"api", "webhooks">>, c.path)
            /\ RouteIn(WebhookRoutes, c.method,
                       Rest(<<"api", "webhooks">>, c.path))
    THEN Handled(c, "webhooks")
    ELSE IF RouteIn(AppRoutes, c.method, c.path)
    THEN Handled(c, "app")
    ELSE NotFound(c)

\* A request arrives while no other is passing through the middleware.
Arrive ==
    /\ app.cur.pc \in {"idle", "done"}
    /\ \E method \in Methods, path \in Paths :
         app' = [app EXCEPT !.cur = [NoExchange EXCEPT !.pc = "cors",
                                         !.method = method, !.path = path]]
    /\ UNCHANGED <<reqs, patches, authPlan, unit, provider, plans>>

\* cors({ origin }): a request without Origin or from an allowed origin goes
\* on; for another origin the error goes to errorHandler.
Cors ==
    /\ app.cur.pc = "cors"
    /\ \E origin \in Origins :
         app' = [app EXCEPT !.cur =
                   IF origin \in {"undefined", "allowed"}
                   THEN [app.cur EXCEPT !.pc = "limiter"]
                   ELSE Ends(app.cur, "cors",
                             ErrorHandler(Err("Error", "", 0,
                                              "Not allowed by CORS"),
                                          app.nodeEnv))]
    /\ UNCHANGED <<reqs, patches, authPlan, unit, provider, plans>>

\* A limiter that refuses the request that reaches max.
LimiterRefusesAtMax ==
    /\ app.cur.pc = "limiter"
    /\ app.hits < MaxHits
    /\ app' = [app EXCEPT !.hits = @ + 1,
                  !.cur = IF app.hits + 1 >= RateLimitMax
                          THEN Ends([app.cur EXCEPT !.hit = app.hits + 1],
                                    "limiter", <<Sent(429, "Too many requests",
                                                      "", "absent")>>)
                          ELSE [app.cur EXCEPT !.pc = "json",
                                               !.hit = app.hits + 1]]
    /\ UNCHANGED <<reqs, patches, authPlan, unit, provider, plans>>

\* app.use(limiter): the request is counted, and refused with 429 ('Too many
\* requests from this IP, please try again later.') beyond max requests in the
\* window.
Limiter ==
    /\ app.cur.pc = "limiter"
    /\ app.hits < MaxHits
    /\ app' = [app EXCEPT !.hits = @ + 1,
                  !.cur = IF app.hits + 1 > RateLimitMax
                          THEN Ends([app.cur EXCEPT !.hit = app.hits + 1],
                                    "limiter", <<Sent(429, "Too many requests",
                                                      "", "absent")>>)
                          ELSE [app.cur EXCEPT !.pc = "json",
                                               !.hit = app.hits + 1]]
    /\ UNCHANGED <<reqs, patches, authPlan, unit, provider, plans>>

\* The window of the limiter ends: its count starts again.
WindowEnds ==
    /\ app.hits > 0
    /\ app' = [app EXCEPT !.hits = 0]
    /\ UNCHANGED <<reqs, patches, authPlan, unit, provider, plans>>

\* app.use(express.json()): a body that does not parse is an error with
\* statusCode 400 for errorHandler.
Json ==
    /\ app.cur.pc = "json"
    /\ \E body \in JsonBodies :
         app' = [app EXCEPT !.cur =
                   IF body = "malformed"
                   THEN Ends(app.cur, "json",
                             ErrorHandler(Err("SyntaxError", "", 400,
                                              "Unexpected token"),
                                          app.nodeEnv))
                   ELSE [app.cur EXCEPT !.pc = "mounts"]]
    /\ UNCHANGED <<reqs, patches, authPlan, unit, provider, plans>>

\* The mounts, with the Authorization header of the request.
Routing ==
    /\ app.cur.pc = "mounts"
    /\ \E header \in Headers :
         app' = [app EXCEPT !.cur = Mounts([app.cur EXCEPT !.header = header])]
    /\ UNCHANGED <<reqs, patches, authPlan, unit, provider, plans>>

InitApp ==
    /\ reqs = EmptyBag
    /\ patches = <<>>
    /\ authPlan = [u \in Users |-> "free"]
    /\ unit = NoUnit
    /\ provider = NoRecords
    /\ app \in {[NoApp EXCEPT !.nodeEnv = e] : e \in NodeEnvs}
    /\ plans = NoPlans

NextApp ==
    \/ Arrive
    \/ Cors
    \/ Limiter
    \/ WindowEnds
    \/ Json
    \/ Routing

SpecApp == InitApp /\ [][NextApp]_vars

\* ---------------------------------------------------------------------
\* Middleware and route handlers called on their own
\* ---------------------------------------------------------------------

\* req.body of PUT /api/subscriptions/:subscriptionId: planId and
\* cancelAtPeriodEnd ("true" and "false" are the booleans, "'false'" the
\* string) and a key the schema does not know; "undefined" for an absent key.
UpdateBodies ==
    [planId : {"undefined", "free", "pro", "gold"},
     cancelAtPeriodEnd : {"undefined", "true", "false", "'false'", "maybe"},
     other : {"undefined", "x"}]

\* req.query of the routes with validatePagination.
PageQueries ==
    [sortOrder : {"undefined", "asc", "up"}, other : {"undefined", "x"}]

\* updateSubscriptionSchema.validate(body, { abortEarly: false,
\* stripUnknown: true }): planId is required and one of the three plans,
\* cancelAtPeriodEnd an optional boolean (a string 'true' or 'false' is
\* converted), unknown keys are stripped from the value.
UpdateSubscriptionSchema(body) ==
    [error |-> \/ body.planId \notin {"free", "pro", "super-pro"}
               \/ body.cancelAtPeriodEnd = "maybe",
     value |-> [planId |-> body.planId,
                cancelAtPeriodEnd |->
                    IF body.cancelAtPeriodEnd = "'false'" THEN "false"
                    ELSE body.cancelAtPeriodEnd,
                other |-> "undefined"]]

\* paginationSchema.validate(query, ...), for its sortOrder key: 'asc' or
\* 'desc', 'desc' when absent.
PaginationSchema(query) ==
    [error |-> query.sortOrder \notin {"undefined", "asc", "desc"},
     value |-> [sortOrder |-> IF query.sortOrder = "undefined" THEN "desc"
                              ELSE query.sortOrder,
                other |-> "undefined"]]

\* What a middleware has done when it returns: the calls of next(), the
\* responses sent and the request data.
Passed(nexts, sent, data) == [nexts |-> nexts, sent |-> sent, data |-> data]

\* A validation middleware that stores the value before it looks at the error.
ValidateStoresFirst(checked, data) ==
    IF checked.error
    THEN Passed(0, <<Sent(400, "Validation Error", "details", "absent")>>,
                checked.value)
    ELSE Passed(1, <<>>, checked.value)

\* The middleware validate(schema, property) and validateQuery(schema) return,
\* given what schema.validate(req[property]) reports.
Validate(checked, data) ==
    IF checked.error
    THEN Passed(0, <<Sent(400, "Validation Error", "details", "absent")>>,
                data)
    ELSE Passed(1, <<>>, checked.value)

\* What a route has done when it has responded: the response and the calls of
\* the provider services, in order.
Replied(status, error, calls) ==
    [status |-> status, error |-> error, calls |-> calls]

\* Which call of a provider service fails in a request, if any.
CallFailures == {"none", "first", "second"}

\* const { paymentMethod = 'stripe' } = req.body of router.post('/intent').
IntentMethod(paymentMethod) ==
    IF paymentMethod = "undefined" THEN "stripe" ELSE paymentMethod

\* router.post('/intent') that tells both providers.
IntentAtBoth(paymentMethod, fails) ==
    IF IntentMethod(paymentMethod) \in {"stripe", "paypal"}
    THEN Replied(200, "", << <<"stripe", "createCustomer">>,
                             <<"paypal", "createOrder">> >>)
    ELSE Replied(400, "Invalid payment method", <<>>)

\* router.post('/intent'), with the provider calls it makes.
Intent(paymentMethod, fails) ==
    LET method == IntentMethod(paymentMethod)
    IN  IF method = "stripe"
        THEN IF fails = "first"
             THEN Replied(500, "Failed to create payment intent",
                          << <<"stripe", "createCustomer">> >>)
             ELSE IF fails = "second"
             THEN Replied(500, "Failed to create payment intent",
                          << <<"stripe", "createCustomer">>,
                             <<"stripe", "createPaymentIntent">> >>)
             ELSE Replied(200, "", << <<"stripe", "createCustomer">>,
                                      <<"stripe", "createPaymentIntent">> >>)
        ELSE IF method = "paypal"
        THEN IF fails = "first"
             THEN Replied(500, "Failed to create payment intent",
                          << <<"paypal", "createOrder">> >>)
             ELSE Replied(200, "", << <<"paypal", "createOrder">> >>)
        ELSE Replied(400, "Invalid payment method", <<>>)

\* router.post('/confirm').
Confirm(paymentMethod, fails) ==
    IF paymentMethod = "stripe" THEN Replied(200, "", <<>>)
    ELSE IF paymentMethod = "paypal"
    THEN IF fails = "first"
         THEN Replied(500, "Failed to confirm payment",
                      << <<"paypal", "captureOrder">> >>)
         ELSE Replied(200, "", << <<"paypal", "captureOrder">> >>)
    ELSE Replied(400, "Invalid payment method", <<>>)

\* router.post('/refund').
Refund(paymentMethod, fails) ==
    IF paymentMethod \in {"stripe", "paypal"}
    THEN IF fails = "first"
         THEN Replied(500, "Failed to create refund",
                      << <<paymentMethod, "createRefund">> >>)
         ELSE Replied(200, "", << <<paymentMethod, "createRefund">> >>)
    ELSE Replied(400, "Invalid payment method", <<>>)

\* router.put('/:subscriptionId') that looks at planId first.
PutPlanFirst(body, fails) ==
    IF body.planId # "undefined"
    THEN IF StripePriceId(body.planId) = "null"
         THEN Replied(400, "Invalid plan", <<>>)
         ELSE Replied(200, "", << <<"stripe", "updateSubscription">> >>)
    ELSE Replied(200, "", <<>>)

\* router.put('/:subscriptionId') after validateUpdateSubscription, with the
\* provider calls it makes.
Put(body, fails) ==
    IF body.cancelAtPeriodEnd # "undefined"
    THEN LET call == IF body.cancelAtPeriodEnd = "true"
                     THEN <<"stripe", "cancelSubscription">>
                     ELSE <<"stripe", "reactivateSubscription">>
         IN  IF fails = "first"
             THEN Replied(500, "Failed to update subscription", <<call>>)
             ELSE Replied(200, "", <<call>>)
    ELSE IF body.planId # "undefined"
    THEN IF StripePriceId(body.planId) = "null"
         THEN Replied(400, "Invalid plan", <<>>)
         ELSE IF fails = "first"
         THEN Replied(500, "Failed to update subscription",
                      << <<"stripe", "updateSubscription">> >>)
         ELSE Replied(200, "", << <<"stripe", "updateSubscription">> >>)
    ELSE Replied(200, "", <<>>)

\* validateUpdateSubscription, then the route when the middleware calls next().
PutRoute(body, fails) ==
    LET v == Validate(UpdateSubscriptionSchema(body), body)
    IN  IF v.nexts = 0
        THEN Replied(v.sent[1].status, v.sent[1].error, <<>>)
        ELSE Put(v.data, fails)

\* The errors handed to errorHandler.
Errors ==
    { Err(n, c, s, m) :
        n \in {"Error", "ValidationError", "StripeError", "PayPalError",
               "JsonWebTokenError", "TokenExpiredError"},
        c \in {"", "ER_DUP_ENTRY", "ER_NO_REFERENCED_ROW_2"},
        s \in {0, 404}, m \in {"", "boom"} }

ACall(fn, a1, a2) ==
    [fn |-> fn, a1 |-> a1, a2 |-> a2, called |-> FALSE, result |-> ""]

HandlerCalls ==
    {ACall("validate", b, "") : b \in UpdateBodies}
    \cup {ACall("validateQuery", q, "") : q \in PageQueries}
    \cup {ACall("errorHandler", e, env) : e \in Errors, env \in NodeEnvs}
    \cup {ACall(fn, m, f) : fn \in {"intent", "confirm", "refund"},
                            m \in {"undefined", "stripe", "paypal", "card"},
                            f \in CallFailures}
    \cup {ACall("put", b, f) : b \in UpdateBodies, f \in CallFailures}

InitHandlers ==
    /\ reqs = EmptyBag
    /\ patches = <<>>
    /\ authPlan = [u \in Users |-> "free"]
    /\ unit \in HandlerCalls
    /\ provider = NoRecords
    /\ app = NoApp
    /\ plans = NoPlans

Returns(fn, result) ==
    /\ unit.fn = fn /\ ~unit.called
    /\ unit' = [unit EXCEPT !.called = TRUE, !.result = result]
    /\ UNCHANGED <<reqs, patches, authPlan, provider, app, plans>>

CallValidate ==
    Returns("validate", Validate(UpdateSubscriptionSchema(unit.a1), unit.a1))

CallValidateQuery ==
    Returns("validateQuery", Validate(PaginationSchema(unit.a1), unit.a1))

CallErrorHandler ==
    Returns("errorHandler", ErrorHandler(unit.a1, unit.a2))

CallIntent == Returns("intent", Intent(unit.a1, unit.a2))

CallConfirm == Returns("confirm", Confirm(unit.a1, unit.a2))

CallRefund == Returns("refund", Refund(unit.a1, unit.a2))

CallPut == Returns("put", PutRoute(unit.a1, unit.a2))

NextHandlers ==
    \/ CallValidate
    \/ CallValidateQuery
    \/ CallErrorHandler
    \/ CallIntent
    \/ CallConfirm
    \/ CallRefund
    \/ CallPut

SpecHandlers == InitHandlers /\ [][NextHandlers]_vars

\* ---------------------------------------------------------------------
\* POST /api/subscriptions/plans and the Plan collection
\* ---------------------------------------------------------------------

PlanNames == {"pro", "team"}
PlanPrices == {"10", "20"}

\* The index of the document Plan.findOne({ name }) returns, 0 for null.
FindOne(docs, name) ==
    IF \E i \in 1..Len(docs) : docs[i].name = name
    THEN CHOOSE i \in 1..Len(docs) :
             /\ docs[i].name = name
             /\ \A j \in 1..Len(docs) : docs[j].name = name => i <= j
    ELSE 0

\* A POST /plans request of the given name and price is received.
PostPlan ==
    /\ Cardinality(plans.posts) < MaxPosts
    /\ \E name \in PlanNames, price \in PlanPrices :
         plans' = [plans EXCEPT !.posts = @ \cup
                      {[id |-> Cardinality(plans.posts) + 1, name |-> name,
                        price |-> price, pc |-> "findOne", plan |-> 0,
                        status |-> 0]}]
    /\ UNCHANGED <<reqs, patches, authPlan, unit, provider, app>>

\* let plan = await Plan.findOne({ name }).
PlanFindOne(r) ==
    /\ r.pc = "findOne"
    /\ plans' = [plans EXCEPT !.posts = (@ \ {r}) \cup
                    {[r EXCEPT !.pc = "save",
                               !.plan = FindOne(plans.docs, r.name)]}]
    /\ UNCHANGED <<reqs, patches, authPlan, unit, provider, app>>

\* await plan.save() and res.json({ success: true, data: plan }): the plan
\* found is updated, or a new Plan is inserted when none was found; the
\* schema has no unique index on name.
PlanSave(r) ==
    /\ r.pc = "save"
    /\ plans' = [docs |-> IF r.plan > 0
                          THEN [plans.docs EXCEPT ![r.plan].price = r.price]
                          ELSE Append(plans.docs,
                                      [name |-> r.name, price |-> r.price]),
                 posts |-> (plans.posts \ {r}) \cup
                           {[r EXCEPT !.pc = "done", !.status = 200]}]
    /\ UNCHANGED <<reqs, patches, authPlan, unit, provider, app>>

NextPlans ==
    \/ PostPlan
    \/ \E r \in plans.posts : PlanFindOne(r)
    \/ \E r \in plans.posts : PlanSave(r)

SpecPlans == Init /\ [][NextPlans]_vars

\* The service as server.js mounts it.
Next ==
    \/ Receive
    \/ \E q \in BagToSet(reqs) : AppJson(q)
    \/ \E q \in BagToSet(reqs) : RouteRaw(q)
    \/ \E q \in BagToSet(reqs) : Stripe(q)
    \/ \E q \in BagToSet(reqs) : PayPal(q)
    \/ \E q \in BagToSet(reqs) : Test(q)
    \/ \E q \in BagToSet(reqs) : Fetch(q)
    \/ \E q \in BagToSet(reqs) : FetchReply(q)
    \/ \E q \in BagToSet(reqs) : Resume(q)

Spec == Init /\ [][Next]_vars

\* The router of routes/webhooks.js, given every request its routes can get.
NextRouter ==
    \/ ReceiveAtRouter
    \/ \E q \in BagToSet(reqs) : RouteRaw(q)
    \/ \E q \in BagToSet(reqs) : Stripe(q)
    \/ \E q \in BagToSet(reqs) : PayPal(q)
    \/ \E q \in BagToSet(reqs) : Test(q)
    \/ \E q \in BagToSet(reqs) : Fetch(q)
    \/ \E q \in BagToSet(reqs) : FetchReply(q)
    \/ \E q \in BagToSet(reqs) : Resume(q)

SpecRouter == Init /\ [][NextRouter]_vars

\* The plan that the metadata of event eid names: two events that follow each
\* other name different plans.
PlanOfEvent(eid) == IF eid % 2 = 1 THEN "pro" ELSE "super-pro"

\* What the Stripe route reads from a signed customer.subscription.created or
\* customer.subscription.updated of user u1.
StripeReadsOfChange(q) ==
    {<<"good", t, "object", "u1", PlanOfEvent(q.eid)>> :
        t \in {"customer.subscription.created",
                "customer.subscription.updated"}}

\* A new event for the subscription of u1 arrives at the Stripe route.
ReceiveChange ==
    /\ BagCardinality(reqs) < MaxReq
    /\ reqs' = reqs (+) SetToBag({
                  NewRequest("stripe", BagCardinality(reqs) + 1, "first",
                             "", "undefined", "raw")})
    /\ UNCHANGED <<patches, authPlan, unit, provider, app, plans>>

\* router.post('/stripe') on such an event.
StripeChange(q) ==
    /\ q.pc = "route" /\ q.ep = "stripe"
    /\ \E in \in StripeReadsOfChange(q) :
         Becomes(q, StripeRoute(q, in[1], in[2], in[3], in[4], in[5]))
    /\ UNCHANGED <<patches, authPlan, unit, provider, app, plans>>

\* The router serving, at the same time, different events that change the plan
\* of one user.
NextChanges ==
    \/ ReceiveChange
    \/ \E q \in BagToSet(reqs) : RouteRaw(q)
    \/ \E q \in BagToSet(reqs) : StripeChange(q)
    \/ \E q \in BagToSet(reqs) : Fetch(q)
    \/ \E q \in BagToSet(reqs) : FetchReply(q)
    \/ \E q \in BagToSet(reqs) : Resume(q)

SpecChanges == Init /\ [][NextChanges]_vars

\* A step of the router's own code on some request.  The answer of the
\* authentication service (FetchReply) is not one: the code sets no timeout on
\* fetch, and nothing obliges the other service to answer.
Served ==
    \E q \in BagToSet(reqs) :
        RouteRaw(q) \/ Stripe(q) \/ PayPal(q) \/ Test(q) \/ Fetch(q) \/ Resume(q)

\* The router, whose code runs whenever it can (Node runs every ready callback).
SpecRouterLive == SpecRouter /\ WF_vars(Served)

\* The router serving one request at a time, the events with or without the
\* object their handler is called with.
NextInTurn ==
    \/ ReceiveInTurn
    \/ \E q \in BagToSet(reqs) : RouteRaw(q)
    \/ \E q \in BagToSet(reqs) : Stripe(q)
    \/ \E q \in BagToSet(reqs) : StripeNoObject(q)
    \/ \E q \in BagToSet(reqs) : PayPal(q)
    \/ \E q \in BagToSet(reqs) : PayPalNoObject(q)
    \/ \E q \in BagToSet(reqs) : Test(q)
    \/ \E q \in BagToSet(reqs) : Fetch(q)
    \/ \E q \in BagToSet(reqs) : FetchReply(q)
    \/ \E q \in BagToSet(reqs) : Resume(q)

SpecInTurn == Init /\ [][NextInTurn]_vars

\* The payment and subscription routes of routes/payments.js, behind the
\* authentication middleware, and Stripe.
NextPayments ==
    \/ PaymentIntent
    \/ AddPaymentMethod
    \/ CreateSubscription
    \/ ChangeSubscription
    \/ EndSubscription
    \/ CheckoutPaid

SpecPayments == Init /\ [][NextPayments]_vars

\* ---------------------------------------------------------------------
\* The functions on their own
\* ---------------------------------------------------------------------

\* A call of PayPalService.verifyWebhookSignature: a1 tells whether eventBody
\* is JSON text, a2 what the provider's verification call does.
VerifyCalls ==
    {[fn |-> "verify", a1 |-> b, a2 |-> e, result |-> ""] :
        b \in {"json", "not json"}, e \in ExecOutcomes}

\* A pass through the switch of a route: a1 is the route, a2 the type string.
SwitchCalls ==
    {[fn |-> "switch", a1 |-> ep, a2 |-> t, result |-> ""] :
        ep \in {"stripe", "paypal"}, t \in TypeStrings}

InitFn ==
    /\ reqs = EmptyBag
    /\ patches = <<>>
    /\ authPlan = [u \in Users |-> "free"]
    /\ unit \in VerifyCalls \cup SwitchCalls
    /\ provider = NoRecords
    /\ app = NoApp
    /\ plans = NoPlans

CallVerify ==
    /\ unit.fn = "verify" /\ unit.result = ""
    /\ unit' = [unit EXCEPT !.result =
                   PayPalVerifyWebhookSignature(unit.a1 = "json", unit.a2)]
    /\ UNCHANGED <<reqs, patches, authPlan, provider, app, plans>>

CallSwitch ==
    /\ unit.fn = "switch" /\ unit.result = ""
    /\ unit' = [unit EXCEPT !.result =
                   IF unit.a1 = "stripe" THEN StripeHandlerFor(unit.a2)
                   ELSE PayPalHandlerFor(unit.a2)]
    /\ UNCHANGED <<reqs, patches, authPlan, provider, app, plans>>

NextFn == CallVerify \/ CallSwitch

SpecFn == InitFn /\ [][NextFn]_vars

\* ---------------------------------------------------------------------
\* Properties
\* ---------------------------------------------------------------------

\* Request q has sent its PATCH to the authentication service.
PatchSent(q) == q.pc = "wait" \/ q.reply # "none"

\* Two deliveries of one event: the same route, identifier and content.
SameEvent(q1, q2) ==
    /\ q1.ep = q2.ep /\ q1.eid = q2.eid
    /\ q1.type = q2.type /\ q1.userId = q2.userId /\ q1.planId = q2.planId

\* The type strings of the specification's mapping table, by provider.
CardGatewaySources ==
    { "payment_intent.succeeded", "checkout.session.completed",
      "payment_intent.payment_failed", "invoice.payment_succeeded",
      "invoice.payment_failed", "customer.subscription.created",
      "customer.subscription.updated", "customer.subscription.deleted",
      "customer.subscription.trial_will_end" }

WalletGatewaySources ==
    { "PAYMENT.CAPTURE.COMPLETED", "PAYMENT.CAPTURE.DENIED",
      "BILLING.SUBSCRIPTION.PAYMENT.COMPLETED",
      "BILLING.SUBSCRIPTION.PAYMENT.FAILED", "BILLING.SUBSCRIPTION.CREATED",
      "BILLING.SUBSCRIPTION.ACTIVATED", "BILLING.SUBSCRIPTION.CANCELLED",
      "BILLING.SUBSCRIPTION.EXPIRED" }

MappedSources(ep) ==
    IF ep = "stripe" THEN CardGatewaySources ELSE WalletGatewaySources

\* The route of q has read the type of the event: the Stripe route from the
\* verified event, the PayPal route from the body.
TypeSeen(q) ==
    \/ q.ep = "stripe" /\ q.verified
    \/ q.ep = "paypal" /\ q.pc \notin {"json", "route"} /\ q.body # "undefined"

\* C1: on every webhook route (Stripe, PayPal, test) no handler runs and no
\* PATCH is sent for a request unless the verification of that request's
\* signature has succeeded first.
C1_NoHandlingBeforeVerification ==
    \A q \in BagToSet(reqs) : (q.h # "none" \/ PatchSent(q)) => q.verified

\* C2: a request to the Stripe route whose signature header is absent, or whose
\* verification throws, is answered 400; no handler runs, no PATCH is sent and
\* nothing else happens for it.
C2_StripeRejectsUnverified ==
    \A q \in BagToSet(reqs) :
        (q.ep = "stripe" /\ q.sig # "" /\ ~q.verified) =>
            /\ q.pc = "done" /\ q.status = 400
            /\ q.rbody = IF q.sig = "none" THEN "No signature found"
                         ELSE "Invalid signature"
            /\ q.h = "none" /\ q.hstate = "none" /\ ~PatchSent(q)

\* A signature that does not match the raw body has been refused, and so has a
\* request without the header.
C2_Witness ==
    /\ \E q \in BagToSet(reqs) :
         /\ q.ep = "stripe" /\ q.sig = "bad" /\ q.payload = "raw"
         /\ q.status = 400 /\ q.rbody = "Invalid signature"
    /\ \E q \in BagToSet(reqs) :
         q.ep = "stripe" /\ q.sig = "none" /\ q.status = 400

\* C3: the payload handed to the Stripe verifier is always the raw bytes of the
\* body; no earlier body parser has replaced the body by a parsed object.
C3_VerifierGetsRawBytes ==
    \A q \in BagToSet(reqs) :
        (q.ep = "stripe" /\ q.ctype = "json" /\ q.payload # "none") =>
            q.payload = "raw"

\* C4: PayPalService.verifyWebhookSignature returns true only when the
\* provider's verification call reports SUCCESS, returns false on every failure
\* (unparsable body, failed call, reply without a result, another status), and
\* never throws.
C4_PayPalVerifyNeverThrows ==
    (unit.fn = "verify" /\ unit.result # "") =>
        /\ unit.result \in {"true", "false"}
        /\ (unit.result = "true") <=> (unit.a1 = "json" /\ unit.a2 = "SUCCESS")

\* The verification call has failed and the function has returned false.
C4_Witness ==
    unit.fn = "verify" /\ unit.a2 = "throws" /\ unit.result = "false"

\* C5: a webhook whose type is not one of the mapping table's types for its
\* route is answered 200 {received: true}; no handler runs and no PATCH is sent.
C5_UnrecognizedAcknowledged ==
    \A q \in BagToSet(reqs) :
        (TypeSeen(q) /\ q.type \notin MappedSources(q.ep)) =>
            /\ q.pc = "done" /\ q.status = 200 /\ q.rbody = "received"
            /\ q.h = "none" /\ q.hstate = "none" /\ ~PatchSent(q)

\* Each route has acknowledged a type it does not know.
C5_Witness ==
    /\ \E q \in BagToSet(reqs) :
         /\ q.ep = "stripe" /\ q.verified /\ q.type = "charge.refunded"
         /\ q.status = 200 /\ q.rbody = "received"
    /\ \E q \in BagToSet(reqs) :
         /\ q.ep = "paypal" /\ q.type = "payment_intent.succeeded"
         /\ q.status = 200 /\ q.rbody = "received"

\* C6: the types a route recognizes are exactly those of the mapping table for
\* its provider, 9 for Stripe and 8 for PayPal; each selects one handler by an
\* exact match; every other string, a type of the other provider included,
\* selects none.
C6_SwitchIsMappingTable ==
    (unit.fn = "switch" /\ unit.result # "") =>
        /\ (unit.result # "none") <=> (unit.a2 \in MappedSources(unit.a1))
        /\ Cardinality({t \in TypeStrings : StripeHandlerFor(t) # "none"}) = 9
        /\ Cardinality({t \in TypeStrings : PayPalHandlerFor(t) # "none"}) = 8

\* A type of the other provider, and a type that differs from a known one only
\* in case, have selected no handler; a known type has selected one.
C6_Witness ==
    /\ unit.fn = "switch" /\ unit.result # ""
    /\ \/ unit.a1 = "stripe" /\ unit.a2 = "PAYMENT.CAPTURE.COMPLETED"
       \/ unit.a1 = "paypal" /\ unit.a2 = "payment.capture.completed"
    /\ unit.result = "none"

\* C7: a second delivery of a provider's event, made after the first has been
\* answered, applies nothing and sends no second PATCH.
C7_RetrySendsNoPatch ==
    \A q1, q2 \in BagToSet(reqs) :
        ( /\ SameEvent(q1, q2) /\ q1.ep \in {"stripe", "paypal"}
          /\ q1.delivery = "first" /\ q2.delivery = "retry"
          /\ PatchSent(q1) ) => ~PatchSent(q2)

\* C8: of two deliveries of one event that are served at the same time, exactly
\* one runs the handler.
C8_OneOfTwoRunsHandler ==
    \A q1, q2 \in BagToSet(reqs) :
        ( /\ SameEvent(q1, q2)
          /\ q1.delivery = "first" /\ q2.delivery = "race" ) =>
            ~(q1.h # "none" /\ q2.h # "none")

\* C9: {received: true} is sent only after the handler the switch called has
\* run to its end, the outcome of its PATCH included.
C9_AckAfterHandler ==
    \A q \in BagToSet(reqs) :
        q.rbody = "received" =>
            /\ q.h = "none" \/ q.hstate = "returned"
            /\ (ReadsMetadata(q.h) /\ HasUserAndPlan(q.userId, q.planId)) =>
                   q.reply # "none"

\* A handler has sent its PATCH, got a non-2xx answer and returned, and the
\* route has acknowledged after it.
C9_Witness ==
    \E q \in BagToSet(reqs) :
        /\ q.h = "handleSubscriptionUpdated" /\ q.reply = "nonok"
        /\ q.hstate = "returned" /\ q.rbody = "received"

\* C10: for a verified checkout.session.completed, customer.subscription.created
\* or customer.subscription.updated whose PATCH gets a non-2xx answer or fails,
\* the response is still 200 {received: true}.
C10_AckDespitePatchFailure ==
    \A q \in BagToSet(reqs) :
        ( /\ q.ep = "stripe" /\ q.verified
          /\ q.type \in { "checkout.session.completed",
                          "customer.subscription.created",
                          "customer.subscription.updated" }
          /\ q.reply \in {"nonok", "neterr"} ) =>
            /\ q.status \in {0, 200}
            /\ q.pc = "done" => (q.status = 200 /\ q.rbody = "received")

\* The PATCH of a checkout.session.completed has failed on the network and the
\* request has been acknowledged.
C10_Witness ==
    \E q \in BagToSet(reqs) :
        /\ q.type = "checkout.session.completed" /\ q.reply = "neterr"
        /\ q.pc = "done" /\ q.status = 200 /\ q.rbody = "received"

\* The PATCH calls sent for the event that request q delivers.
PatchesFor(q) ==
    {i \in DOMAIN patches : patches[i].ep = q.ep /\ patches[i].eid = q.eid}

\* Request q is the only delivery of its event.
OnlyDelivery(q) ==
    \A x \in BagToSet(reqs) : (x.ep = q.ep /\ x.eid = q.eid) => x = q

\* C11: when the PATCH of an event gets a non-2xx answer or fails on the
\* network, the PATCH is attempted again, up to a cap of 3 attempts: an event
\* whose handling has ended on a failed PATCH has had more than one attempt, and
\* no event has more than 3.
C11_FailedPatchIsRetried ==
    \A q \in BagToSet(reqs) :
        (q.ep \in {"stripe", "paypal"} /\ OnlyDelivery(q)) =>
            /\ Cardinality(PatchesFor(q)) <= 3
            /\ (q.reply \in {"nonok", "neterr"} /\ q.pc = "done") =>
                   Cardinality(PatchesFor(q)) >= 2

\* C12: when the handler of a recognized event fails with an exception, the
\* route answers with an error status and never with {received: true}.
C12_HandlerFailureIsRetryable ==
    \A q \in BagToSet(reqs) :
        (q.h # "none" /\ q.obj = "undefined" /\ q.pc = "done") =>
            (q.status >= 400 /\ q.rbody # "received")

\* C13: every webhook request is answered in the end, also when the
\* authentication service does not answer the PATCH: from some point on, every
\* request received has its response.
C13_EveryRequestAnswered ==
    <>[](\A q \in BagToSet(reqs) : q.pc = "done")

\* C14: a verified customer.subscription.created whose metadata carries userId
\* u and planId p sends exactly one PATCH, to the plan of user u with planId p,
\* whatever came before; if userId or planId is missing no PATCH is sent; in
\* both cases the event is acknowledged.
C14_SubscriptionCreatedPatchesOnce ==
    \A q \in BagToSet(reqs) :
        ( /\ q.ep = "stripe" /\ q.verified /\ q.obj = "object"
          /\ q.type = "customer.subscription.created"
          /\ q.pc = "done" /\ OnlyDelivery(q) ) =>
            /\ q.status = 200 /\ q.rbody = "received"
            /\ IF q.userId # "" /\ q.planId # ""
               THEN /\ Cardinality(PatchesFor(q)) = 1
                    /\ \A i \in PatchesFor(q) :
                         /\ patches[i].userId = q.userId
                         /\ patches[i].planId = q.planId
               ELSE PatchesFor(q) = {}

\* A customer.subscription.created for u1 and pro has been acknowledged after
\* its one PATCH, which the authentication service has applied.
C14_Witness ==
    \E q \in BagToSet(reqs) :
        /\ q.type = "customer.subscription.created" /\ q.pc = "done"
        /\ q.userId = "u1" /\ q.planId = "pro" /\ q.reply = "ok"
        /\ OnlyDelivery(q) /\ Cardinality(PatchesFor(q)) = 1
        /\ authPlan["u1"] = "pro"

\* C15: a BILLING.SUBSCRIPTION.CREATED or BILLING.SUBSCRIPTION.ACTIVATED of
\* PayPal propagates the plan as a customer.subscription.created of Stripe
\* does: when its request has been answered, its PATCH has been sent.
C15_PayPalSubscriptionPropagatesPlan ==
    \A q \in BagToSet(reqs) :
        ( /\ q.ep = "paypal" /\ q.obj = "object" /\ q.pc = "done"
          /\ q.type \in { "BILLING.SUBSCRIPTION.CREATED",
                          "BILLING.SUBSCRIPTION.ACTIVATED" } ) => PatchSent(q)

\* C16: a cancellation (customer.subscription.deleted of Stripe, verified, or
\* BILLING.SUBSCRIPTION.CANCELLED of PayPal) is followed by a PATCH that
\* downgrades the plan of the subscription's user: when its request has been
\* answered, that PATCH has been sent.
C16_CancellationPropagatesDowngrade ==
    \A q \in BagToSet(reqs) :
        ( /\ TypeSeen(q) /\ q.obj = "object" /\ q.pc = "done"
          /\ q.type \in { "customer.subscription.deleted",
                          "BILLING.SUBSCRIPTION.CANCELLED" } ) => PatchSent(q)

\* The events of Stripe about a subscription after its creation or update.
\* Every one of the model's events is about the one subscription its handlers
\* log (subscription.id).
SubscriptionChanges ==
    {"customer.subscription.created", "customer.subscription.updated"}

\* The cancellation of the subscription has been processed and acknowledged.
CancellationProcessed ==
    \E q \in BagToSet(reqs) :
        /\ q.ep = "stripe" /\ q.verified /\ q.obj = "object"
        /\ q.type = "customer.subscription.deleted"
        /\ q.pc = "done" /\ q.status = 200

\* C17: once the cancellation of a subscription has been processed, a later
\* customer.subscription.updated or customer.subscription.created for it is a
\* no-op: no step sends a PATCH for such an event.
C17_NoPatchAfterCancellation ==
    [][ CancellationProcessed =>
          \A q \in BagToSet(reqs) :
              (q.ep = "stripe" /\ q.type \in SubscriptionChanges)
                 => ~Fetch(q) ]_vars

\* C18: after any sequence of payment-intent, add-payment-method and
\* subscription-creation requests of a user on the Stripe path, at most one
\* Stripe customer has been created for that user.
C18_OneCustomerPerUser ==
    \A u \in AuthUsers : provider.customers[u] <= 1

\* C19: the metadata of the checkout session, or payment intent, created for an
\* authenticated request carries the id of the authenticated user as userId
\* and, for a session, the validated plan requested as planId, whatever
\* metadata the client has supplied.
C19_MetadataNamesThePayer ==
    provider.created.kind # "none" =>
        /\ provider.created.userId = provider.created.by
        /\ provider.created.kind = "session" =>
               provider.created.planId = provider.created.plan

\* C20: no operation removes a subscription: once Stripe holds it, it holds it
\* after every step; DELETE /:subscriptionId changes nothing but its
\* cancel_at_period_end, which it sets.
C20_SubscriptionNeverRemoved ==
    [][ /\ provider.sub.exists => provider'.sub.exists
        /\ EndSubscription =>
             provider'.sub \in
               { provider.sub,
                 [provider.sub EXCEPT !.cancelAtPeriodEnd = TRUE] } ]_vars

\* The subscription exists and is marked to end with its period, after an
\* operation the route has answered 200.
C20_Witness ==
    /\ provider.sub.exists /\ provider.sub.cancelAtPeriodEnd
    /\ provider.status = 200 /\ provider.calls >= 2

\* C21: a verified customer.subscription.trial_will_end is a notification
\* only: its handler sends no PATCH and reads no metadata, the handler returns
\* at once, and the request is acknowledged with {received: true}.
C21_TrialWillEndOnlyNotifies ==
    \A q \in BagToSet(reqs) :
        ( /\ q.ep = "stripe" /\ q.verified
          /\ q.type = "customer.subscription.trial_will_end" ) =>
            /\ q.h = "handleSubscriptionTrialWillEnd"
            /\ ~PatchSent(q) /\ q.userId = "" /\ q.planId = ""
            /\ PatchesFor(q) = {} \/ ~OnlyDelivery(q)
            /\ q.pc \in {"resume", "done"}
            /\ q.pc = "done" => (q.status = 200 /\ q.rbody = "received")

\* A trial_will_end has been acknowledged, and nothing has been sent to the
\* authentication service.
C21_Witness ==
    /\ patches = <<>>
    /\ \E q \in BagToSet(reqs) :
         /\ q.type = "customer.subscription.trial_will_end" /\ q.verified
         /\ q.obj = "object" /\ q.pc = "done" /\ q.rbody = "received"

\* The plan of u1 after the event of request q is applied on its own: the plan
\* of the event when the authentication service has accepted the PATCH, the
\* plan before otherwise.
ApplyEvent(plan, q) == IF q.reply = "ok" THEN q.planId ELSE plan

RECURSIVE ApplyInOrder(_, _)
ApplyInOrder(plan, order) ==
    IF order = <<>> THEN plan
    ELSE ApplyInOrder(ApplyEvent(plan, Head(order)), Tail(order))

\* The orders in which the events received can be applied one after the other.
SerialOrders ==
    LET S == BagToSet(reqs)
        n == Cardinality(S)
    IN  {o \in [1..n -> S] : \A i, j \in 1..n : o[i] = o[j] => i = j}

Registered(c) ==
    \/ Under(<<"health">>, c.path)
         /\ RouteIn(HealthRoutes, c.method, Rest(<<"health">>, c.path))
    \/ Under(<<"api", "subscriptions">>, c.path)
         /\ RouteIn(SubscriptionRoutes, c.method,
                    Rest(<<"api", "subscriptions">>, c.path))
    \/ Under(<<"api", "payments">>, c.path)
         /\ RouteIn(PaymentRoutes, c.method, Rest(<<"api", "payments">>, c.path))
    \/ Under(<<"api", "webhooks">>, c.path)
         /\ RouteIn(WebhookRoutes, c.method, Rest(<<"api", "webhooks">>, c.path))
    \/ RouteIn(AppRoutes, c.method, c.path)

\* The request has been answered after CORS, the limiter and the body parser
\* have let it pass.
AnsweredByMounts(c) == c.pc = "done" /\ c.by \in {"auth", "route", "404"}

Is404(sent) ==
    Len(sent) = 1 /\ sent[1].status = 404 /\ sent[1].error = "Route not found"

UnderAuthMount(c) ==
    Under(<<"api", "subscriptions">>, c.path)
    \/ Under(<<"api", "payments">>, c.path)

\* C23 as stated: every request that reaches the routes and matches none of
\* them is answered 404 'Route not found', whatever its prefix and whether or
\* not it carries credentials.
C23_UnmatchedAlways404 ==
    (AnsweredByMounts(app.cur) /\ ~Registered(app.cur)) => Is404(app.cur.sent)

\* C23, amended: a request that reaches the routes and matches none of them is
\* answered 404 'Route not found', except under /api/subscriptions and
\* /api/payments without a Bearer token that verifies: there authMiddleware
\* answers first, 401 or 500.
C23_UnmatchedIs404BehindAuth ==
    (AnsweredByMounts(app.cur) /\ ~Registered(app.cur)) =>
        IF UnderAuthMount(app.cur) /\ app.cur.header # <<"Bearer ", "good">>
        THEN /\ Len(app.cur.sent) = 1
             /\ app.cur.sent[1].status \in {401, 500}
             /\ app.cur.by = "auth"
        ELSE Is404(app.cur.sent)

\* Unmatched requests have been answered 404 outside the mounts with
\* authMiddleware without credentials, and under them with a token that
\* verifies.
C23_Witness ==
    /\ app.cur.pc = "done" /\ app.cur.by = "404" /\ Is404(app.cur.sent)
    /\ app.cur.method = "GET"
    /\ app.cur.path = <<"api", "subscriptions", "sub_1", "usage", "daily">>
    /\ app.cur.header = <<"Bearer ", "good">>

IsHealthy(sent) ==
    /\ Len(sent) = 1 /\ sent[1].status = 200 /\ sent[1].error = "healthy"
    /\ sent[1].message = "Payment Service"

GetHealth(c) == c.method = "GET" /\ c.path = <<"health">>

\* C24 as stated: every GET /health that CORS and the body parser let pass is
\* answered 200 with status 'healthy' and service 'Payment Service', also when
\* many are issued in rapid succession.
C24_HealthAlways200 ==
    (GetHealth(app.cur) /\ app.cur.pc = "done" /\ app.cur.by \notin {"cors", "json"})
        => IsHealthy(app.cur.sent)

\* C24, amended: a GET /health that CORS and the body parser let pass is
\* answered 200 with status 'healthy' and service 'Payment Service', with or
\* without credentials, when it is among the first 100 requests of its window
\* of the limiter, and 429 otherwise.
C24_HealthWithinRateLimit ==
    (GetHealth(app.cur) /\ app.cur.pc = "done" /\ app.cur.by \notin {"cors", "json"})
        => /\ app.cur.hit <= RateLimitMax => IsHealthy(app.cur.sent)
           /\ app.cur.hit > RateLimitMax =>
                (Len(app.cur.sent) = 1 /\ app.cur.sent[1].status = 429)

\* The hundredth request of a window is a GET /health without a Bearer token
\* that verifies, and it is answered healthy.
C24_Witness ==
    /\ GetHealth(app.cur) /\ app.cur.pc = "done" /\ app.cur.hit = RateLimitMax
    /\ app.cur.header = <<"Bearer ", "invalid">> /\ IsHealthy(app.cur.sent)

\* The status authMiddleware answers a request with, 0 when it lets it pass.
AuthStatus(header) ==
    IF header[1] # "Bearer " \/ header[2] \in {"", "invalid", "expired"}
    THEN 401
    ELSE IF header[2] = "good" THEN 0 ELSE 500

\* C25: a route handler under /api/subscriptions or /api/payments runs only
\* after authMiddleware has set req.user from a token that verifies, and for
\* every request the middleware either calls next() once and sends nothing, or
\* sends one response and does not call next(): 401 for a missing header, a
\* header that is not 'Bearer ', an empty, invalid or expired token, 500 for
\* any other error.
C25_AuthBeforeHandlers ==
    (app.cur.pc = "done" /\ UnderAuthMount(app.cur)
       /\ app.cur.by \in {"auth", "route", "404"}) =>
        /\ app.cur.route \in {"subscriptions", "payments"} =>
             (app.cur.header = <<"Bearer ", "good">> /\ app.cur.user = "u1")
        /\ app.cur.route \in {"none", "subscriptions", "payments"}
        /\ Len(app.cur.sent) = 1
        /\ \/ /\ app.cur.nexts = 1 /\ app.cur.by \in {"route", "404"}
              /\ AuthStatus(app.cur.header) = 0
           \/ /\ app.cur.nexts = 0 /\ app.cur.by = "auth"
              /\ app.cur.route = "none" /\ app.cur.user = "undefined"
              /\ app.cur.sent[1].status = AuthStatus(app.cur.header)
              /\ app.cur.sent[1].status \in {401, 500}

\* A handler of the payments router has run for the user of the token, and a
\* token that is not yet valid has been answered 500.
C25_Witness ==
    /\ app.cur.pc = "done" /\ app.cur.route = "payments" /\ app.cur.user = "u1"
    /\ app.cur.nexts = 1 /\ app.cur.path = <<"api", "payments", "intent">>

C25_WitnessOtherError ==
    /\ app.cur.pc = "done" /\ app.cur.by = "auth" /\ app.cur.nexts = 0
    /\ app.cur.header = <<"Bearer ", "early">> /\ app.cur.sent[1].status = 500

\* C26: a validation middleware does one of two things: when the schema
\* reports an error it responds 400 'Validation Error', does not call next()
\* and leaves the request data as they were; otherwise it stores the validated
\* value as the request data and calls next() once.
C26_ValidateRespondsOrPasses ==
    (unit.fn \in {"validate", "validateQuery"} /\ unit.called) =>
        LET checked == IF unit.fn = "validate"
                       THEN UpdateSubscriptionSchema(unit.a1)
                       ELSE PaginationSchema(unit.a1)
            r == unit.result
        IN  IF checked.error
            THEN /\ r.nexts = 0 /\ Len(r.sent) = 1 /\ r.sent[1].status = 400
                 /\ r.sent[1].error = "Validation Error" /\ r.data = unit.a1
            ELSE /\ r.nexts = 1 /\ r.sent = <<>> /\ r.data = checked.value

\* A body with a plan the schema does not allow and a key it does not know has
\* been refused, and a query without sortOrder has passed with the default.
C26_Witness ==
    /\ unit.fn = "validate" /\ unit.called /\ unit.a1.planId = "gold"
    /\ unit.a1.other = "x" /\ unit.result.nexts = 0
    /\ unit.result.data.other = "x"

C26_WitnessPassed ==
    /\ unit.fn = "validateQuery" /\ unit.called
    /\ unit.a1.sortOrder = "undefined" /\ unit.a1.other = "x"
    /\ unit.result.nexts = 1 /\ unit.result.data.sortOrder = "desc"
    /\ unit.result.data.other = "undefined"

\* A call of a provider service has failed in the request.
ProviderFailed ==
    \/ unit.a2 = "first" /\ Len(unit.result.calls) >= 1
    \/ unit.a2 = "second" /\ Len(unit.result.calls) >= 2

OnlyProvider(name) ==
    \A i \in 1..Len(unit.result.calls) : unit.result.calls[i][1] = name

Refused400 ==
    /\ unit.result.status = 400
    /\ unit.result.error = "Invalid payment method"
    /\ unit.result.calls = <<>>

\* C27 as stated: on POST /intent, /confirm and /refund a request whose
\* paymentMethod is neither 'stripe' nor 'paypal' is answered 400 'Invalid
\* payment method' without a provider call; otherwise only the provider
\* selected is called, and a provider error gives 500.
C27_OtherMethodRefused ==
    (unit.fn \in {"intent", "confirm", "refund"} /\ unit.called) =>
        /\ unit.a1 \notin {"stripe", "paypal"} => Refused400
        /\ unit.a1 \in {"stripe", "paypal"} => OnlyProvider(unit.a1)
        /\ ProviderFailed => unit.result.status = 500

\* C27, amended: a paymentMethod that is given and is neither 'stripe' nor
\* 'paypal' is answered 400 'Invalid payment method' without a provider call;
\* on /intent a request without paymentMethod is served as 'stripe'; otherwise
\* only the provider selected is called, and a provider error gives 500 and
\* never a success.
C27_GivenOtherMethodRefused ==
    (unit.fn \in {"intent", "confirm", "refund"} /\ unit.called) =>
        LET selected == IF unit.fn = "intent" /\ unit.a1 = "undefined"
                        THEN "stripe" ELSE unit.a1
        IN  /\ selected \notin {"stripe", "paypal"} => Refused400
            /\ selected \in {"stripe", "paypal"} =>
                 (OnlyProvider(selected) /\ unit.result.status \in {200, 500})
            /\ ProviderFailed => unit.result.status = 500

\* A refund by 'card' has been refused, and an intent for PayPal whose order
\* fails has been answered 500 with PayPal alone called.
C27_Witness ==
    /\ unit.fn = "intent" /\ unit.called /\ unit.a1 = "paypal"
    /\ unit.a2 = "first" /\ unit.result.status = 500
    /\ unit.result.calls = << <<"paypal", "createOrder">> >>

C27_WitnessRefused ==
    unit.fn = "refund" /\ unit.called /\ unit.a1 = "card" /\ Refused400

\* C28: PUT /api/subscriptions/:subscriptionId makes at most one call that
\* changes the subscription at Stripe: with cancelAtPeriodEnd true it cancels,
\* with false it reactivates, and in both cases it leaves the plan alone
\* though planId is given; without cancelAtPeriodEnd it changes the plan, and
\* a planId without a Stripe price ('free') is answered 400 with no call.
C28_OneMutationPerUpdate ==
    (unit.fn = "put" /\ unit.called) =>
        LET b == unit.a1
            r == unit.result
            valid == b.planId \in {"free", "pro"} /\ b.cancelAtPeriodEnd # "maybe"
        IN  /\ Len(r.calls) <= 1
            /\ ~valid => (r.calls = <<>> /\ r.status = 400)
            /\ (valid /\ b.cancelAtPeriodEnd = "true") =>
                 r.calls = << <<"stripe", "cancelSubscription">> >>
            /\ (valid /\ b.cancelAtPeriodEnd \in {"false", "'false'"}) =>
                 r.calls = << <<"stripe", "reactivateSubscription">> >>
            /\ (valid /\ b.cancelAtPeriodEnd = "undefined" /\ b.planId = "pro")
                 => r.calls = << <<"stripe", "updateSubscription">> >>
            /\ (valid /\ b.cancelAtPeriodEnd = "undefined" /\ b.planId = "free")
                 => (r.calls = <<>> /\ r.status = 400 /\ r.error = "Invalid plan")

\* A request with planId 'pro' and cancelAtPeriodEnd true has cancelled and
\* not changed the plan.
C28_Witness ==
    /\ unit.fn = "put" /\ unit.called /\ unit.a1.planId = "pro"
    /\ unit.a1.cancelAtPeriodEnd = "true" /\ unit.result.status = 200
    /\ unit.result.calls = << <<"stripe", "cancelSubscription">> >>

\* The status errorHandler is to answer err with.
FirstMatchStatus(err) ==
    IF err.name \in {"ValidationError", "StripeError", "PayPalError"} THEN 400
    ELSE IF err.code = "ER_DUP_ENTRY" THEN 409
    ELSE IF err.code = "ER_NO_REFERENCED_ROW_2" THEN 400
    ELSE IF err.name \in {"JsonWebTokenError", "TokenExpiredError"} THEN 401
    ELSE IF err.statusCode # 0 THEN err.statusCode
    ELSE 500

\* C30: errorHandler sends one response per error, that of the first test
\* that matches: the names ValidationError, StripeError, PayPalError (400),
\* the codes ER_DUP_ENTRY (409) and ER_NO_REFERENCED_ROW_2 (400), the names
\* JsonWebTokenError and TokenExpiredError (401), else err.statusCode or 500;
\* in production the default response has neither err.message nor the stack.
C30_ErrorHandlerFirstMatch ==
    (unit.fn = "errorHandler" /\ unit.called) =>
        /\ Len(unit.result) = 1
        /\ unit.result[1].status = FirstMatchStatus(unit.a1)
        /\ (unit.a2 = "production" /\ unit.result[1].error = "Server Error") =>
             /\ unit.result[1].message = "An unexpected error occurred."
             /\ unit.result[1].stack = "absent"

\* An error that has the name JsonWebTokenError and the code ER_DUP_ENTRY has
\* been answered 409, and an error of no known kind with statusCode 404 has
\* been answered 404 in production without its message.
C30_Witness ==
    /\ unit.fn = "errorHandler" /\ unit.called
    /\ unit.a1.name = "JsonWebTokenError" /\ unit.a1.code = "ER_DUP_ENTRY"
    /\ unit.result[1].status = 409

C30_WitnessDefault ==
    /\ unit.fn = "errorHandler" /\ unit.called /\ unit.a2 = "production"
    /\ unit.a1.name = "Error" /\ unit.a1.code = "" /\ unit.a1.statusCode = 404
    /\ unit.a1.message = "boom" /\ unit.result[1].status = 404
    /\ unit.result[1].message = "An unexpected error occurred."

PlansNamed(name) == {i \in 1..Len(plans.docs) : plans.docs[i].name = name}

\* C29: after any POST /api/subscriptions/plans requests, also two at the same
\* time for the same new name, there is at most one Plan record of each name.
C29_OnePlanPerName ==
    \A name \in PlanNames : Cardinality(PlansNamed(name)) <= 1

====
